---- MODULE Spec2Model ----
(***************************************************************************)
(* The course-counter program (labs/solana/programs/course-counter): one   *)
(* Counter account per authority, stored at the program-derived address    *)
(* of [COUNTER_SEED, authority], created by `initialize` and bumped by     *)
(* `increment`.                                                            *)
(*                                                                         *)
(* The account-validation steps that #[derive(Accounts)] generates are     *)
(* modelled in the order the framework runs them: accounts are loaded in   *)
(* field order (an `init` field is only created by its constraint), then   *)
(* the constraints of each field run as init, seeds, has_one.  An          *)
(* instruction is atomic: a failing instruction leaves no write behind.    *)
(* The transaction is taken to mark the counter (and the payer) writable.  *)
(***************************************************************************)
EXTENDS Integers, Naturals, FiniteSets, Sequences, TLC

\* ------------------------------------------------------------------ bounds
\* width of Counter.count in the model (u64 in the program)
CountBits == 2
\* largest bump seed tried by the address derivation (u8::MAX in the runtime)
MaxBump == 2
\* number of increment transactions in flight in SpecConc
MaxTx == 3

\* ------------------------------------------------------------- identities
\* the keys that sign transactions
Identities == {"A", "B"}

\* Pubkey::default(), the authority of an account that holds no Counter
NoKey == "none"

\* the namespace tag of the seeds
COUNTER_SEED == "counter"

\* the largest value of Counter.count
U64_MAX == 2^CountBits - 1

\* ------------------------------------------------------- address derivation
\* position of a key in the hash input, used by the model's hash only
KeyIndex(k) == IF k = "A" THEN 0 ELSE IF k = "B" THEN 1 ELSE 2

\* whether hash(seed, key, bump, program id) is a point of the curve; such a
\* hash is not a program-derived address.  The hash itself is kept symbolic
\* and collision free: the address is the tuple of its inputs.
OnCurve(seed, key, bump) == (KeyIndex(key) + bump) % 3 = 0

\* the address of the wallet account of a key
WalletAddress(key) == [kind |-> "wallet", seed |-> "", key |-> key, bump |-> 0]

\* Pubkey::create_program_address(&[seed, key, &[bump]], program_id)
CreateProgramAddress(seed, key, bump) ==
    IF OnCurve(seed, key, bump)
    THEN [ok |-> FALSE, address |-> WalletAddress(NoKey), bump |-> bump]
    ELSE [ok |-> TRUE,
          address |-> [kind |-> "pda", seed |-> seed, key |-> key, bump |-> bump],
          bump |-> bump]

\* the search of Pubkey::find_program_address: bumps from the largest down,
\* the first one whose hash is off the curve
RECURSIVE FindFrom(_, _, _)
FindFrom(seed, key, bump) ==
    IF CreateProgramAddress(seed, key, bump).ok
    THEN CreateProgramAddress(seed, key, bump)
    ELSE IF bump = 0
         THEN [ok |-> FALSE, address |-> WalletAddress(NoKey), bump |-> 0]
         ELSE FindFrom(seed, key, bump - 1)

\* Pubkey::find_program_address(&[seed, key], program_id)
FindProgramAddress(seed, key) == FindFrom(seed, key, MaxBump)

\* every address a transaction of the model can name
Addresses ==
    {WalletAddress(k) : k \in Identities} \cup
    UNION {{CreateProgramAddress(COUNTER_SEED, k, b).address :
               b \in {c \in 0..MaxBump : ~OnCurve(COUNTER_SEED, k, c)}} :
           k \in Identities}

\* --------------------------------------------------------------- accounts
\* the Counter struct
Counter(authority, count, bump) ==
    [authority |-> authority, count |-> count, bump |-> bump]

\* an address nothing was ever stored at: owned by the system program, no
\* lamports, no data
EmptyAccount == [owner |-> "system", lamports |-> 0, data |-> Counter(NoKey, 0, 0)]

\* the funded wallet of a signer
WalletAccount == [owner |-> "system", lamports |-> 1, data |-> Counter(NoKey, 0, 0)]

\* an account of this program holding a Counter
CounterAccount(c) == [owner |-> "course_counter", lamports |-> 1, data |-> c]

VARIABLES
    accounts,   \* the ledger: address -> account
    prev,       \* the ledger before the last instruction
    last,       \* the last instruction: its name, accounts, signer flag, result
    born,       \* address -> authority written when the Counter was created
    succ,       \* address -> number of increments that returned Ok
    txs,        \* SpecConc: the increment transactions in flight
    locks       \* SpecConc: the addresses write-locked by a running transaction

vars == <<accounts, prev, last, born, succ, txs, locks>>

IsCounter(a) == accounts[a].owner = "course_counter"

\* ------------------------------------------------------ account validation
\* an account taken as it is (UncheckedAccount), with no check of its owner
LoadCounter_Unchecked(acc, counter) == "Ok"

\* Account<Counter>::try_from on the account passed as `counter`
LoadCounter(acc, counter) ==
    IF acc[counter].owner = "system" /\ acc[counter].lamports = 0
    THEN "AccountNotInitialized"
    ELSE IF acc[counter].owner # "course_counter"
         THEN "AccountOwnedByWrongProgram"
         ELSE "Ok"

\* the error codes the program declares
CourseError == {"Unauthorized", "Overflow"}

\* a seeds check that takes any bump whose address is valid, not the one
\* find_program_address returns
InitSeeds_AnyBump(counter, authority) ==
    \E b \in 0..MaxBump :
        /\ CreateProgramAddress(COUNTER_SEED, authority, b).ok
        /\ counter = CreateProgramAddress(COUNTER_SEED, authority, b).address

\* Initialize: seeds = [COUNTER_SEED, authority.key()], bump -- the account
\* passed must be the address find_program_address derives
InitSeeds(counter, authority) ==
    /\ FindProgramAddress(COUNTER_SEED, authority).ok
    /\ counter = FindProgramAddress(COUNTER_SEED, authority).address

\* an allocation that takes an account already in use (init_if_needed)
InitAllocate_IfNeeded(acc, counter) ==
    acc[counter].owner = "course_counter" \/ acc[counter].owner = "system"

\* Initialize: init -- the system program allocates the account, which it
\* refuses (AccountAlreadyInUse) unless the account is its own and holds no
\* data
InitAllocate(acc, counter) == acc[counter].owner = "system"

\* Increment: seeds = [COUNTER_SEED, authority.key()], bump = counter.bump
IncSeeds(acc, counter, authority) ==
    /\ CreateProgramAddress(COUNTER_SEED, authority, acc[counter].data.bump).ok
    /\ counter =
         CreateProgramAddress(COUNTER_SEED, authority, acc[counter].data.bump).address

\* Increment: has_one = authority @ CourseError::Unauthorized
HasOne(acc, counter, authority) == acc[counter].data.authority = authority

\* the validation of the Initialize accounts, in the order it runs
InitializeAccounts(acc, counter, authority, isSigner) ==
    IF ~isSigner THEN "AccountNotSigner"
    ELSE IF ~InitSeeds(counter, authority) THEN "ConstraintSeeds"
    ELSE IF ~InitAllocate(acc, counter) THEN "AccountAlreadyInUse"
    ELSE "Ok"

\* a validation without the seeds and has_one constraints
IncrementAccounts_NoAuthority(acc, counter, authority, isSigner) ==
    IF LoadCounter(acc, counter) # "Ok" THEN LoadCounter(acc, counter)
    ELSE IF ~isSigner THEN "AccountNotSigner"
    ELSE "Ok"

\* the validation of the Increment accounts, in the order it runs
IncrementAccounts(acc, counter, authority, isSigner) ==
    IF LoadCounter(acc, counter) # "Ok" THEN LoadCounter(acc, counter)
    ELSE IF ~isSigner THEN "AccountNotSigner"
    ELSE IF ~IncSeeds(acc, counter, authority) THEN "ConstraintSeeds"
    ELSE IF ~HasOne(acc, counter, authority) THEN "Unauthorized"
    ELSE "Ok"

\* ---------------------------------------------------------------- handlers
\* u64::wrapping_add
checked_add_Wrapping(a, b) == [some |-> TRUE, value |-> (a + b) % (U64_MAX + 1)]

\* u64::checked_add
checked_add(a, b) ==
    IF a + b > U64_MAX THEN [some |-> FALSE, value |-> 0]
    ELSE [some |-> TRUE, value |-> a + b]

\* a handler that leaves the bump field zeroed
InitializeHandler_NoBump(authority, bump) == Counter(authority, 0, 0)

\* a handler that starts the count at 1
InitializeHandler_StartsAtOne(authority, bump) == Counter(authority, 1, bump)

\* instructions::initialize::handler: the Counter it writes
InitializeHandler(authority, bump) == Counter(authority, 0, bump)

\* a handler that returns Ok without storing the sum
IncrementHandler_NoStore(c) ==
    IF checked_add(c.count, 1).some
    THEN [result |-> "Ok", counter |-> c]
    ELSE [result |-> "Overflow", counter |-> c]

\* a handler that adds 2 when there is room for it
IncrementHandler_AddTwo(c) ==
    IF checked_add(c.count, 2).some
    THEN [result |-> "Ok", counter |-> [c EXCEPT !.count = checked_add(c.count, 2).value]]
    ELSE IF checked_add(c.count, 1).some
         THEN [result |-> "Ok",
               counter |-> [c EXCEPT !.count = checked_add(c.count, 1).value]]
         ELSE [result |-> "Overflow", counter |-> c]

\* a handler that also rewrites the authority with the default key
IncrementHandler_ClearsAuthority(c) ==
    IF checked_add(c.count, 1).some
    THEN [result |-> "Ok",
          counter |-> [c EXCEPT !.count = checked_add(c.count, 1).value,
                                !.authority = NoKey]]
    ELSE [result |-> "Overflow", counter |-> c]

\* a handler that saturates: at U64_MAX it returns Ok and stores nothing
IncrementHandler_Saturating(c) ==
    IF checked_add(c.count, 1).some
    THEN [result |-> "Ok", counter |-> [c EXCEPT !.count = checked_add(c.count, 1).value]]
    ELSE [result |-> "Ok", counter |-> c]

\* instructions::increment::handler on the loaded Counter
IncrementHandler(c) ==
    IF checked_add(c.count, 1).some
    THEN [result |-> "Ok", counter |-> [c EXCEPT !.count = checked_add(c.count, 1).value]]
    ELSE [result |-> "Overflow", counter |-> c]

\* the result of the initialize instruction
InitializeResult(acc, counter, authority, isSigner) ==
    InitializeAccounts(acc, counter, authority, isSigner)

\* an increment whose overflow check runs before the accounts are validated
IncrementResult_HandlerFirst(acc, counter, authority, isSigner) ==
    IF LoadCounter(acc, counter) = "Ok"
          /\ IncrementHandler(acc[counter].data).result = "Overflow"
    THEN "Overflow"
    ELSE IF IncrementAccounts(acc, counter, authority, isSigner) # "Ok"
         THEN IncrementAccounts(acc, counter, authority, isSigner)
         ELSE IncrementHandler(acc[counter].data).result

\* the result of the increment instruction
IncrementResult(acc, counter, authority, isSigner) ==
    IF IncrementAccounts(acc, counter, authority, isSigner) # "Ok"
    THEN IncrementAccounts(acc, counter, authority, isSigner)
    ELSE IncrementHandler(acc[counter].data).result

\* an exit under a `close` constraint: the account goes back to the system
\* program
ExitCounter_Close(account, c) == EmptyAccount

\* Increment: mut -- when the instruction returns Ok its exit stores the
\* Counter back into the account, which stays the program's
ExitCounter(account, c) == [account EXCEPT !.data = c]

\* ------------------------------------------------------------------- state
IdleTx ==
    [pc |-> "idle", counter |-> WalletAddress(NoKey), authority |-> NoKey,
     local |-> Counter(NoKey, 0, 0), result |-> "none"]

Init ==
    /\ accounts = [a \in Addresses |->
                     IF a.kind = "wallet" THEN WalletAccount ELSE EmptyAccount]
    /\ prev = accounts
    /\ last = [op |-> "none", counter |-> WalletAddress(NoKey), authority |-> NoKey,
               signer |-> FALSE, result |-> "none"]
    /\ born = [a \in Addresses |-> NoKey]
    /\ succ = [a \in Addresses |-> 0]
    /\ txs = [t \in 1..MaxTx |-> IdleTx]
    /\ locks = {}

\* the ledger after the initialize instruction
InitializeEffect(counter, authority, isSigner) ==
    IF InitializeResult(accounts, counter, authority, isSigner) = "Ok"
    THEN /\ accounts' = [accounts EXCEPT ![counter] =
                CounterAccount(InitializeHandler(authority,
                    FindProgramAddress(COUNTER_SEED, authority).bump))]
         /\ born' = [born EXCEPT ![counter] = accounts'[counter].data.authority]
         /\ succ' = [succ EXCEPT ![counter] = 0]
    ELSE UNCHANGED <<accounts, born, succ>>

\* course_counter::initialize as one transaction
Initialize(counter, authority, isSigner) ==
    /\ InitializeEffect(counter, authority, isSigner)
    /\ prev' = accounts
    /\ last' = [op |-> "initialize", counter |-> counter, authority |-> authority,
                signer |-> isSigner,
                result |-> InitializeResult(accounts, counter, authority, isSigner)]
    /\ UNCHANGED <<txs, locks>>

\* course_counter::increment as one transaction
Increment(counter, authority, isSigner) ==
    /\ IF IncrementResult(accounts, counter, authority, isSigner) = "Ok"
       THEN /\ accounts' = [accounts EXCEPT ![counter] =
                              ExitCounter(accounts[counter],
                                  IncrementHandler(accounts[counter].data).counter)]
            /\ succ' = [succ EXCEPT ![counter] = @ + 1]
       ELSE UNCHANGED <<accounts, succ>>
    /\ prev' = accounts
    /\ last' = [op |-> "increment", counter |-> counter, authority |-> authority,
                signer |-> isSigner,
                result |-> IncrementResult(accounts, counter, authority, isSigner)]
    /\ UNCHANGED <<born, txs, locks>>

Next ==
    \/ \E counter \in Addresses, authority \in Identities, isSigner \in BOOLEAN :
          Initialize(counter, authority, isSigner)
    \/ \E counter \in Addresses, authority \in Identities, isSigner \in BOOLEAN :
          Increment(counter, authority, isSigner)

Spec == Init /\ [][Next]_vars

\* ------------------------------------------- transactions running together
\* The runtime write-locks every account a transaction marks writable for as
\* long as the transaction runs; `mut` on `counter` has the increment refuse
\* an account that is not marked writable.  The increment is then three
\* steps: load the Counter from the account, run the handler on the loaded
\* copy, store the copy when the instruction exits.  Load and handler are one
\* step here, the store another.

\* the addresses the transactions of SpecConc name: the Counter addresses
ConcTargets == {FindProgramAddress(COUNTER_SEED, k).address : k \in Identities}

\* a transaction that takes no lock on the account (it is not marked writable)
WriteLockFree_NoLock(held, counter) == TRUE

\* Increment: mut -- the counter is writable, so the runtime runs the
\* transaction only while no other transaction holds the account
WriteLockFree(held, counter) == counter \notin held

\* a client submits an increment transaction
Submit(t, counter, authority) ==
    /\ txs[t].pc = "idle"
    /\ \A u \in 1..MaxTx : u < t => txs[u].pc # "idle"
    /\ txs' = [txs EXCEPT ![t] = [IdleTx EXCEPT !.pc = "submitted",
                                    !.counter = counter, !.authority = authority]]
    /\ UNCHANGED <<accounts, prev, last, born, succ, locks>>

\* the runtime starts the transaction: the accounts are validated and the
\* Counter is loaded; a rejected transaction ends here
Load(t) ==
    /\ txs[t].pc = "submitted"
    /\ WriteLockFree(locks, txs[t].counter)
    /\ IF IncrementAccounts(accounts, txs[t].counter, txs[t].authority, TRUE) = "Ok"
       THEN /\ txs' = [txs EXCEPT ![t].pc = "loaded",
                                  ![t].local = accounts[txs[t].counter].data]
            /\ locks' = locks \cup {txs[t].counter}
       ELSE /\ txs' = [txs EXCEPT ![t].pc = "done",
                          ![t].result = IncrementAccounts(accounts, txs[t].counter,
                                                          txs[t].authority, TRUE)]
            /\ UNCHANGED locks
    /\ UNCHANGED <<accounts, prev, last, born, succ>>

\* the handler runs on the loaded Counter and the instruction exits: the
\* Counter is stored when the handler returned Ok, and the lock is released
Store(t) ==
    /\ txs[t].pc = "loaded"
    /\ txs' = [txs EXCEPT ![t].pc = "done",
                          ![t].local = IdleTx.local,
                          ![t].result = IncrementHandler(txs[t].local).result]
    /\ IF IncrementHandler(txs[t].local).result = "Ok"
       THEN /\ accounts' = [accounts EXCEPT ![txs[t].counter] =
                              ExitCounter(accounts[txs[t].counter],
                                  IncrementHandler(txs[t].local).counter)]
            /\ succ' = [succ EXCEPT ![txs[t].counter] = @ + 1]
       ELSE UNCHANGED <<accounts, succ>>
    /\ locks' = locks \ {txs[t].counter}
    /\ UNCHANGED <<prev, last, born>>

\* an initialize transaction, which runs alone on its accounts
InitializeTx(authority) ==
    /\ WriteLockFree(locks, FindProgramAddress(COUNTER_SEED, authority).address)
    /\ InitializeResult(accounts, FindProgramAddress(COUNTER_SEED, authority).address,
                        authority, TRUE) = "Ok"
    /\ InitializeEffect(FindProgramAddress(COUNTER_SEED, authority).address,
                        authority, TRUE)
    /\ UNCHANGED <<prev, last, txs, locks>>

NextConc ==
    \/ \E authority \in Identities : InitializeTx(authority)
    \/ \E t \in 1..MaxTx, counter \in ConcTargets, authority \in Identities :
          Submit(t, counter, authority)
    \/ \E t \in 1..MaxTx : Load(t)
    \/ \E t \in 1..MaxTx : Store(t)

SpecConc == Init /\ [][NextConc]_vars

\* ------------------------------------------------------------------ claims
\* the account the last instruction named as `counter`, before and after
Before == prev[last.counter]
After == accounts[last.counter]

\* the last instruction was `op`, signed by its authority
Called(op) == last.op = op /\ last.signer

\* the last instruction named a Counter whose authority is its signer
ByOwner == Before.owner = "course_counter" /\ Before.data.authority = last.authority

\* C1 (as claimed): an increment of an existing Counter signed by a key that
\* is not its authority fails with Unauthorized and with no other error, and
\* leaves the ledger as it was.
C1_NonOwnerUnauthorized ==
    (Called("increment") /\ Before.owner = "course_counter"
        /\ Before.data.authority # last.authority)
    => (last.result = "Unauthorized" /\ accounts = prev)

\* C2 (as claimed): initialize for an authority whose Counter already exists
\* fails with AlreadyInitialized and leaves the Counter as it was.
C2_AlreadyInitialized ==
    (Called("initialize") /\ InitSeeds(last.counter, last.authority)
        /\ Before.owner = "course_counter")
    => (last.result = "AlreadyInitialized" /\ accounts = prev)

\* C2 (amended): initialize signed by an authority whose Counter already
\* exists fails with the system program's AccountAlreadyInUse, which is none
\* of the program's own error codes, and leaves authority, count and bump of
\* the Counter as they were: count is not reset to 0.
C2_CreateTwiceRejected ==
    (Called("initialize") /\ InitSeeds(last.counter, last.authority)
        /\ Before.owner = "course_counter")
    => /\ last.result = "AccountAlreadyInUse"
       /\ last.result \notin CourseError \cup {"Ok"}
       /\ accounts = prev

\* a second initialize hit a Counter that had been incremented
C2_Witness ==
    /\ Called("initialize") /\ InitSeeds(last.counter, last.authority)
    /\ Before.owner = "course_counter" /\ Before.data.count > 0

\* C3: an increment signed by the authority of a Counter whose count is
\* U64_MAX fails with Overflow and leaves the Counter (and the whole ledger)
\* as it was: the count stays U64_MAX.
C3_OverflowRejected ==
    (Called("increment") /\ ByOwner /\ Before.data.count = U64_MAX)
    => /\ last.result = "Overflow"
       /\ accounts = prev
       /\ After.data.count = U64_MAX

\* the authority incremented a Counter at U64_MAX
C3_Witness ==
    Called("increment") /\ ByOwner /\ Before.data.count = U64_MAX

\* C4: an increment signed by the authority of a Counter whose count is below
\* U64_MAX returns Ok, makes the count one more than it was, and leaves
\* authority, bump and every other account as they were.
C4_IncrementByOne ==
    (Called("increment") /\ ByOwner /\ Before.data.count < U64_MAX)
    => /\ last.result = "Ok"
       /\ After.data.count = Before.data.count + 1
       /\ After.data.authority = Before.data.authority
       /\ After.data.bump = Before.data.bump
       /\ After.owner = Before.owner
       /\ \A a \in Addresses \ {last.counter} : accounts[a] = prev[a]

\* the authority incremented a Counter that had been incremented before
C4_Witness ==
    /\ Called("increment") /\ ByOwner
    /\ Before.data.count > 0 /\ Before.data.count < U64_MAX

\* C5: initialize signed by an authority, naming the address derived from it
\* when nothing is stored there, returns Ok and leaves a Counter there whose
\* authority is the signer, whose count is 0 and whose bump is the one that
\* derives the address from the signer's key.
C5_CreateFresh ==
    (Called("initialize") /\ InitSeeds(last.counter, last.authority)
        /\ Before = EmptyAccount)
    => /\ last.result = "Ok"
       /\ After.owner = "course_counter"
       /\ After.data.authority = last.authority
       /\ After.data.count = 0
       /\ CreateProgramAddress(COUNTER_SEED, last.authority, After.data.bump).ok
       /\ CreateProgramAddress(COUNTER_SEED, last.authority, After.data.bump).address
            = last.counter

\* an authority whose derivation skips a bump created its Counter
C5_Witness ==
    /\ Called("initialize") /\ InitSeeds(last.counter, last.authority)
    /\ Before = EmptyAccount
    /\ last.counter.bump < MaxBump

\* the authority of every Counter is the one written when it was created
OwnerAsBorn ==
    \A a \in Addresses : IsCounter(a) => accounts[a].data.authority = born[a]

\* no step removes a Counter or rewrites its authority
OwnerKept ==
    \A a \in Addresses :
        IsCounter(a) =>
            /\ accounts'[a].owner = "course_counter"
            /\ accounts'[a].data.authority = accounts[a].data.authority

\* C7: in every state the authority of every Counter is the one it was given
\* when it was created, and no step of any instruction rewrites it.
C7_OwnerImmutable == []OwnerAsBorn /\ [][OwnerKept]_vars

\* a Counter was incremented and then named in a rejected initialize
C7_Witness ==
    /\ last.op = "initialize" /\ last.result # "Ok"
    /\ Before.owner = "course_counter" /\ succ[last.counter] > 0

\* what a step may do to the count stored at address a
CountStep(a) ==
    IF IsCounter(a)
    THEN /\ accounts'[a].owner = "course_counter"
         /\ accounts'[a].data.count <= U64_MAX
         /\ \/ accounts'[a].data.count = accounts[a].data.count
            \/ /\ accounts'[a].data.count = accounts[a].data.count + 1
               /\ last'.op = "increment" /\ last'.result = "Ok"
               /\ last'.counter = a
    ELSE accounts'[a].owner = "course_counter" => accounts'[a].data.count = 0

\* C8: in every step the count of a Counter stays or grows by exactly 1, it
\* grows only in an increment that returns Ok on that Counter, it never
\* decreases or passes U64_MAX, and a Counter just created has count 0.
C8_CountSteps == [][\A a \in Addresses : CountStep(a)]_vars

\* a Counter reached U64_MAX by increments
C8_Witness ==
    \E a \in Addresses :
        IsCounter(a) /\ accounts[a].data.count = U64_MAX /\ last.result = "Ok"

\* the addresses that hold a Counter of authority k
CountersOf(k) == {a \in Addresses : IsCounter(a) /\ accounts[a].data.authority = k}

\* C9: in every state each key is the authority of at most one Counter, which
\* is stored at the address find_program_address derives from the key; the
\* other valid addresses of the key's seeds never hold one.
C9_OneCounterPerOwner ==
    /\ \A k \in Identities :
          /\ Cardinality(CountersOf(k)) <= 1
          /\ CountersOf(k) \subseteq {FindProgramAddress(COUNTER_SEED, k).address}
    /\ \A a \in Addresses : IsCounter(a) => a.kind = "pda" /\ a.key \in Identities
                                            /\ a \in CountersOf(a.key)

\* an authority that owns a Counter asked for one more at another address
\* its seeds derive
C9_Witness ==
    /\ Called("initialize") /\ CountersOf(last.authority) # {}
    /\ InitSeeds_AnyBump(last.counter, last.authority)
    /\ ~InitSeeds(last.counter, last.authority)

\* C10: in every state the count of every Counter is the number of
\* increments of it that returned Ok since it was created; rejected
\* instructions add nothing.
C10_CountIsSuccesses ==
    \A a \in Addresses : IsCounter(a) => accounts[a].data.count = succ[a]

\* a Counter incremented twice was named in an increment that was rejected
\* for its signer
C10_Witness ==
    /\ Called("increment") /\ last.result \notin {"Ok", "Overflow"}
    /\ Before.owner = "course_counter" /\ Before.data.count = 2
    /\ Before.data.authority # last.authority

\* the transactions that returned `result` on the Counter at address a
Finished(a, result) ==
    {t \in 1..MaxTx : txs[t].pc = "done" /\ txs[t].counter = a /\ txs[t].result = result}

\* the transactions signed by the authority of the Counter at address a
OwnerTxs(a) ==
    {t \in 1..MaxTx : txs[t].counter = a /\ txs[t].authority = accounts[a].data.authority}

\* C6: however the increment transactions on one Counter interleave, its
\* count is the number of them that returned Ok: no increment is lost.  When
\* k transactions of the authority have all run on a Counter created before
\* them, with k <= U64_MAX, the count is k.
C6_NoLostUpdate ==
    \A a \in ConcTargets :
        IsCounter(a) =>
            /\ accounts[a].data.count = Cardinality(Finished(a, "Ok"))
            /\ (/\ \A t \in OwnerTxs(a) : txs[t].pc = "done"
                /\ Finished(a, "AccountNotInitialized") = {}
                /\ Cardinality(OwnerTxs(a)) <= U64_MAX)
               => accounts[a].data.count = Cardinality(OwnerTxs(a))

\* every transaction was an increment of one Counter by its authority, all
\* were submitted before any ran to its end, and all have run
C6_Witness ==
    \E a \in ConcTargets :
        /\ IsCounter(a)
        /\ OwnerTxs(a) = 1..MaxTx
        /\ Finished(a, "Ok") = 1..MaxTx


\* the errors the framework and the system program raise while the accounts
\* of an instruction are validated and allocated
FrameworkError ==
    {"AccountNotSigner", "ConstraintSeeds", "AccountAlreadyInUse",
     "AccountNotInitialized", "AccountOwnedByWrongProgram"}

OfOtherOwner(a) ==
    \/ a.key # last.authority
    \/ prev[a].owner = "course_counter" /\ prev[a].data.authority # last.authority

\* C12: an initialize or increment requested by one authority, whether it
\* returns Ok or an error and whatever account it names, leaves every
\* account of every other owner as it was: no Counter of another owner
\* appears, disappears or changes a field.
C12_OtherOwnersUntouched ==
    last.op # "none" =>
        \A a \in Addresses : OfOtherOwner(a) => accounts[a] = prev[a]

\* an authority's increment returned Ok while another owner's Counter,
\* incremented before, was on the ledger
C12_Witness ==
    /\ Called("increment") /\ last.result = "Ok"
    /\ \E a \in Addresses :
          /\ IsCounter(a) /\ OfOtherOwner(a)
          /\ accounts[a].data.count > 0


\* what a step may do to the lifecycle state of address a
LifecycleStep(a) ==
    /\ IsCounter(a) => accounts'[a].owner = "course_counter"
    /\ (~IsCounter(a) /\ accounts'[a].owner = "course_counter")
       => (last'.op = "initialize" /\ last'.result = "Ok" /\ last'.counter = a)

\* C13: the only lifecycle transition is Uninitialized -> Active, taken by an
\* initialize that returns Ok on that address; an address that holds a
\* Counter holds one after every step, whatever instruction runs and
\* whatever it returns.
C13_ActiveStaysActive == [][\A a \in Addresses : LifecycleStep(a)]_vars

\* a Counter that had been incremented was named in an unsigned increment,
\* which was rejected
C13_Witness ==
    /\ last.op = "increment" /\ ~last.signer /\ last.result # "Ok"
    /\ IsCounter(last.counter) /\ succ[last.counter] > 0


\* what a step may do to a Counter at address a whose count is U64_MAX
AtMaxStep(a) ==
    (IsCounter(a) /\ accounts[a].data.count = U64_MAX) =>
        /\ accounts'[a].owner = "course_counter"
        /\ accounts'[a].data.count = U64_MAX
        /\ (/\ last'.op = "increment" /\ last'.signer
            /\ last'.counter = a
            /\ last'.authority = accounts[a].data.authority)
           => last'.result = "Overflow"

\* C14: once the count of a Counter is U64_MAX it is U64_MAX after every
\* later step, and every later increment signed by its authority returns
\* Overflow.
C14_OverflowPermanent == [][\A a \in Addresses : AtMaxStep(a)]_vars

\* a Counter at U64_MAX was named in a later initialize by its authority
C14_Witness ==
    /\ Called("initialize") /\ IsCounter(last.counter)
    /\ accounts[last.counter].data.authority = last.authority
    /\ Before.data.count = U64_MAX
    /\ accounts[last.counter].data.count = U64_MAX


\* C15: in every state a Counter sits at the address find_program_address
\* derives from the key of its authority, its authority is the key the
\* address is derived from, and its stored bump is the bump of that
\* derivation; so the address increment re-derives from a signer's key and
\* the stored bump is the Counter's address exactly when the signer is the
\* Counter's authority.
C15_StoredSeedDerivesAddress ==
    \A a \in Addresses :
        IsCounter(a) =>
            /\ a.kind = "pda" /\ accounts[a].data.authority = a.key
            /\ a = FindProgramAddress(COUNTER_SEED, a.key).address
            /\ accounts[a].data.bump = FindProgramAddress(COUNTER_SEED, a.key).bump
            /\ \A k \in Identities :
                  IncSeeds(accounts, a, k) <=> k = accounts[a].data.authority

\* an increment signed by another key was rejected by the seeds constraint
\* on a Counter whose bump is not the first the derivation tries
C15_Witness ==
    /\ Called("increment") /\ last.result = "ConstraintSeeds"
    /\ IsCounter(last.counter)
    /\ accounts[last.counter].data.bump < MaxBump
    /\ ~IncSeeds(accounts, last.counter, last.authority)


\* an increment named an address nothing is stored at: it was rejected while
\* the account was loaded, wrote nothing and created nothing
NoRecordRejected ==
    (last.op = "increment" /\ Before = EmptyAccount)
    => /\ last.result # "Ok"
       /\ last.result = "AccountNotInitialized"
       /\ accounts = prev
       /\ After = EmptyAccount

\* a signed initialize on a derived address nothing is stored at returns Ok
\* and leaves a Counter with count 0 there, whatever was tried there before
CreateStillSucceeds ==
    \A a \in Addresses :
        (/\ accounts[a] = EmptyAccount
         /\ last'.op = "initialize" /\ last'.signer /\ last'.counter = a
         /\ InitSeeds(a, last'.authority))
        => /\ last'.result = "Ok"
           /\ accounts'[a].owner = "course_counter"
           /\ accounts'[a].data.count = 0

\* C16: an increment of an address where no Counter exists is rejected with
\* an error (AccountNotInitialized), writes nothing and creates no Counter:
\* the address is as empty as before, and a later initialize by the owner of
\* that address still returns Ok with count 0.
C16_IncrementWithoutRecord == []NoRecordRejected /\ [][CreateStillSucceeds]_vars

\* the owner of a derived address signed an increment of it while nothing
\* was stored there, and the increment was rejected
C16_Witness ==
    /\ Called("increment") /\ Before = EmptyAccount
    /\ InitSeeds(last.counter, last.authority)
    /\ last.result = "AccountNotInitialized"


\* C17: when an increment is signed by a key that is not the authority of
\* the Counter and the count is U64_MAX, the call is rejected while the
\* accounts are validated, before the handler's checked_add runs: the result
\* is the error of the failed authority constraint (seeds or has_one), never
\* Overflow and never Ok, and the ledger is as it was.
C17_ValidationBeforeHandler ==
    (/\ Called("increment") /\ Before.owner = "course_counter"
     /\ Before.data.authority # last.authority
     /\ Before.data.count = U64_MAX)
    => /\ last.result # "Overflow" /\ last.result # "Ok"
       /\ last.result =
            IncrementAccounts(prev, last.counter, last.authority, last.signer)
       /\ last.result \in {"ConstraintSeeds", "Unauthorized"}
       /\ accounts = prev

\* a key that is not the authority signed an increment of a Counter at
\* U64_MAX
C17_Witness ==
    /\ Called("increment") /\ Before.owner = "course_counter"
    /\ Before.data.authority # last.authority
    /\ Before.data.authority \in Identities
    /\ succ[last.counter] = U64_MAX

====
